---- MODULE Spec2Model ----
(***************************************************************************)
(* The Autocomplete component of src/src/autocomplete.tsx as a state       *)
(* machine.  One action per event handler; every action includes the       *)
(* re-run of the filter/debounce effect (lines 103-122) that React         *)
(* performs when one of its dependencies changed, and the reset of the     *)
(* active index that useListNavigation performs when the panel closes.     *)
(***************************************************************************)
EXTENDS Integers, Sequences, FiniteSets, TLC

VARIABLES
    mounted,          \* the component instance is mounted
    options,          \* prop options: T[]
    filterOptions,    \* prop filterOptions: "includes" (the host's predicate) or "absent"
    loading,          \* prop loading
    multiple,         \* prop multiple
    disabled,         \* prop disabled
    isOpen,           \* useState(false)
    activeIndex,      \* useState<number | null>(null)
    selectedValues,   \* useState<T[]>(...)
    inputValue,       \* useState('')
    filteredOptions,  \* useState<T[]>(options)
    loadingState,     \* useState(false)
    handler,          \* the timer the current effect instance would clear: {} or {closure}
    timers,           \* timers set and neither fired nor cleared (closures)
    last,             \* the event handled last: its name, the item clicked, the text typed
    calls,            \* host callbacks invoked by the last event, in order
    lastToggle,       \* the toggle the last event performed, and whether the event before
                      \* it toggled the same option (see NoteToggle)
    burst,            \* Query changes since the debounce timer was last idle (up to MaxBurst)
    recomputes        \* timer firings since the effect last ran, and the closure of the last

vars == << mounted, options, filterOptions, loading, multiple, disabled,
           isOpen, activeIndex, selectedValues, inputValue, filteredOptions,
           loadingState, handler, timers, last, calls, lastToggle, burst, recomputes >>

props == << options, filterOptions, loading, multiple, disabled >>

-----------------------------------------------------------------------------
(* Values of T (string | object).  A string is its sequence of characters,  *)
(* an object the sequence of its <<key, value>> entries in insertion order. *)

Str(s) == [t |-> "str", s |-> s, e |-> << >>]
Rec(e) == [t |-> "rec", s |-> << >>, e |-> e]
undefined == [t |-> "undefined", s |-> << >>, e |-> << >>]

\* JavaScript null for activeIndex (indices are 0-based naturals)
null == -1

apple  == Str(<<"a","p","p","l","e">>)
banana == Str(<<"b","a","n","a","n","a">>)
empty  == Str(<< >>)
recAB  == Rec(<< <<"a","1">>, <<"b","2">> >>)
recBA  == Rec(<< <<"b","2">>, <<"a","1">> >>)

\* The option sets the host supplies: strings, one of them empty, and a set
\* with a record.
Strings == << empty, apple, banana >>
Records == << recAB, apple >>
OptionSets == { Strings, Records }

\* The texts the user can bring the input to.
Queries == { << >>, <<"a","p">>, <<"z">> }

\* The longest debounce burst counted (longer ones count as this long).
MaxBurst == 2

\* The longest Selection followed.
MaxSelected == 2

RECURSIVE StringifyEntries(_)
StringifyEntries(e) ==
    IF e = << >> THEN << >>
    ELSE << "\"", e[1][1], "\"", ":", e[1][2] >>
         \o (IF Len(e) > 1 THEN << "," >> ELSE << >>)
         \o StringifyEntries(Tail(e))

\* JSON.stringify(v): records are serialized in insertion order of their keys
JSONstringify(v) ==
    IF v.t = "str" THEN << "\"" >> \o v.s \o << "\"" >>
    ELSE << "{" >> \o StringifyEntries(v.e) \o << "}" >>

\* Deep structural equality of two values (key order of records insignificant)
DeepEqual(a, b) ==
    /\ a.t = b.t
    /\ a.s = b.s
    /\ { a.e[i] : i \in 1..Len(a.e) } = { b.e[i] : i \in 1..Len(b.e) }

\* JavaScript truthiness of a value of T | undefined
Truthy(v) == v.t = "rec" \/ (v.t = "str" /\ v.s # << >>)

\* String.prototype.includes
Includes(s, q) ==
    \E i \in 0..(Len(s) - Len(q)) : SubSeq(s, i + 1, i + Len(q)) = q

\* the host's predicate: options.filter(option => option.includes(state.inputValue))
HostFilter(opts, q) == SelectSeq(opts, LAMBDA o : Includes(o.s, q))

\* filterOptions?.(options, { inputValue }) ?? options
FilterResult(opts, q, f) ==
    IF f = "absent" THEN opts ELSE HostFilter(opts, q)

\* an indexing that clamps the index into a non-empty array
AtClamped(arr, i) ==
    IF arr = << >> THEN undefined
    ELSE IF i < 0 THEN arr[1]
    ELSE IF i >= Len(arr) THEN arr[Len(arr)]
    ELSE arr[i + 1]

\* arr[i] for a 0-based index i, undefined outside the array
At(arr, i) == IF i >= 0 /\ i < Len(arr) THEN arr[i + 1] ELSE undefined

\* prev.findIndex(v => JSON.stringify(v) === JSON.stringify(option)), 0-based, -1 if none
FindIndex(prev, option) ==
    LET hits == { i \in 1..Len(prev) : JSONstringify(prev[i]) = JSONstringify(option) }
    IN  IF hits = {} THEN -1
        ELSE (CHOOSE i \in hits : \A j \in hits : i <= j) - 1

\* prev.filter((_, i) => i !== index)
RemoveAt(prev, index) ==
    [ k \in 1..(Len(prev) - 1) |-> IF k <= index THEN prev[k] ELSE prev[k + 1] ]

\* an updater that selects at the front of the sequence
TogglePrepend(prev, option) ==
    LET index == FindIndex(prev, option)
    IN  IF index >= 0 THEN RemoveAt(prev, index) ELSE << option >> \o prev

\* the updater passed to setSelectedValues
Toggle(prev, option) ==
    LET index == FindIndex(prev, option)
    IN  IF index >= 0 THEN RemoveAt(prev, index) ELSE Append(prev, option)

\* host callback invocations
CallOnChangeOne(option) == [fn |-> "onChange", opt |-> option, seq |-> << >>, text |-> << >>]
CallOnChangeMany(values) == [fn |-> "onChange", opt |-> undefined, seq |-> values, text |-> << >>]
CallOnInputChange(value) == [fn |-> "onInputChange", opt |-> undefined, seq |-> << >>, text |-> value]

\* the values a host passes as prop value
InitialValues ==
    { [kind |-> "absent", one |-> undefined, many |-> << >>],
      [kind |-> "one",    one |-> banana,    many |-> << >>],
      [kind |-> "many",   one |-> undefined, many |-> << >>],
      [kind |-> "many",   one |-> undefined, many |-> << recBA >>] }

\* multiple && value ? (Array.isArray(value) ? value : [value]) : []
InitialSelected(mult, value) ==
    IF mult /\ (value.kind = "many" \/ (value.kind = "one" /\ Truthy(value.one)))
    THEN (IF value.kind = "many" THEN value.many ELSE << value.one >>)
    ELSE << >>

-----------------------------------------------------------------------------
(* The debounce timer.                                                     *)

\* the closure of the setTimeout callback: the values of the render that set it
Closure(opts, q, f) == [options |-> opts, inputValue |-> q, filterOptions |-> f]

\* a clearTimeout that cancels nothing
ClearTimeoutNothing(ts, h) == ts

\* clearTimeout(handler)
ClearTimeout(ts, h) == ts \ h

\* the effect re-run without the cleanup of its previous run
RunEffectNoCleanup(opts, q, f, l) ==
    IF ~l
    THEN /\ filteredOptions' = FilterResult(opts, q, f)
         /\ loadingState' = loadingState
         /\ handler' = {}
         /\ timers' = timers
    ELSE /\ filteredOptions' = filteredOptions
         /\ loadingState' = TRUE
         /\ handler' = { Closure(opts, q, f) }
         /\ timers' = timers \cup { Closure(opts, q, f) }

\* the effect re-run with a non-loading branch that recomputes nothing
RunEffectNoRecompute(opts, q, f, l) ==
    LET cleared == ClearTimeout(timers, handler)
    IN  IF ~l
        THEN /\ filteredOptions' = filteredOptions
             /\ loadingState' = loadingState
             /\ handler' = {}
             /\ timers' = cleared
        ELSE /\ filteredOptions' = filteredOptions
             /\ loadingState' = TRUE
             /\ handler' = { Closure(opts, q, f) }
             /\ timers' = cleared \cup { Closure(opts, q, f) }

\* The effect of lines 103-122 re-run for dependencies (opts, q, f, l): the
\* cleanup of the previous run, then the body.
RunEffect(opts, q, f, l) ==
    LET cleared == ClearTimeout(timers, handler)
    IN  IF ~l
        THEN /\ filteredOptions' = FilterResult(opts, q, f)
             /\ loadingState' = loadingState
             /\ handler' = {}
             /\ timers' = cleared
        ELSE /\ filteredOptions' = filteredOptions
             /\ loadingState' = TRUE
             /\ handler' = { Closure(opts, q, f) }
             /\ timers' = cleared \cup { Closure(opts, q, f) }

NoEffect == UNCHANGED << filteredOptions, loadingState, handler, timers >>

-----------------------------------------------------------------------------
(* Bookkeeping of the history variables.                                   *)

\* no toggle: count 0.  Otherwise opt is the option toggled, prev the Selection
\* before the toggle, count the number (1 or 2) of events in a row that toggled
\* opt, and first the Selection before the first of them.
NoToggle == [opt |-> undefined, prev |-> << >>, first |-> << >>, count |-> 0]

NoteToggle(option) ==
    lastToggle' =
        IF lastToggle.count = 1 /\ lastToggle.opt = option
        THEN [opt |-> option, prev |-> selectedValues, first |-> lastToggle.first, count |-> 2]
        ELSE [opt |-> option, prev |-> selectedValues, first |-> selectedValues, count |-> 1]

\* n: timer firings since the effect last ran; the rest: the closure of the last
NoRecompute == [n |-> 0, options |-> << >>, inputValue |-> << >>, filterOptions |-> "absent"]

Event(ev) == [ev |-> ev, index |-> null, text |-> << >>]

Note(ev, cs) == last' = Event(ev) /\ calls' = cs

NoteQueryChange ==
    /\ burst' = IF ~loading THEN 0
                ELSE IF timers = {} THEN 1
                ELSE IF burst < MaxBurst THEN burst + 1 ELSE MaxBurst
    /\ recomputes' = NoRecompute

NoteEffect ==
    /\ burst' = (IF timers = {} THEN 0 ELSE burst)
    /\ recomputes' = NoRecompute

NoteRecompute(c) ==
    /\ burst' = burst
    /\ recomputes' = [n |-> IF recomputes.n < 2 THEN recomputes.n + 1 ELSE 2,
                      options |-> c.options, inputValue |-> c.inputValue,
                      filterOptions |-> c.filterOptions]

EndBurst == burst' = 0 /\ recomputes' = NoRecompute

-----------------------------------------------------------------------------
(* Initial state: the first render and the first run of the effect.        *)

AllStrings(opts) == \A i \in 1..Len(opts) : opts[i].t = "str"

Init ==
    /\ mounted = TRUE
    /\ options \in OptionSets
    /\ filterOptions \in { "absent", "includes" }
    /\ filterOptions = "includes" => AllStrings(options)
    /\ loading \in BOOLEAN
    /\ multiple \in BOOLEAN
    /\ disabled \in BOOLEAN
    /\ isOpen = FALSE
    /\ activeIndex = null
    /\ \E value \in InitialValues : selectedValues = InitialSelected(multiple, value)
    /\ inputValue = << >>
    /\ filteredOptions = IF loading THEN options
                         ELSE FilterResult(options, << >>, filterOptions)
    /\ loadingState = loading
    /\ handler = IF loading THEN { Closure(options, << >>, filterOptions) } ELSE {}
    /\ timers = handler
    /\ last = Event("mount")
    /\ calls = << >>
    /\ lastToggle = NoToggle
    /\ burst = 0
    /\ recomputes = NoRecompute

-----------------------------------------------------------------------------
(* Closing the panel: isOpen becomes false and useListNavigation, seeing    *)
(* open go false, calls onNavigate(null).                                  *)

\* a close that leaves the active index where it was
ClosePanelKeepIndex == isOpen' = FALSE /\ activeIndex' = activeIndex

ClosePanel == isOpen' = FALSE /\ activeIndex' = null

\* a selection that closes the panel in multiple mode too
SelectOptionCloses(option) ==
    IF multiple
    THEN /\ FindIndex(selectedValues, option) >= 0 \/ Len(selectedValues) < MaxSelected
         /\ selectedValues' = Toggle(selectedValues, option)
         /\ calls' = << CallOnChangeMany(Toggle(selectedValues, option)) >>
         /\ NoteToggle(option)
         /\ ClosePanel
    ELSE /\ calls' = << CallOnChangeOne(option) >>
         /\ ClosePanel
         /\ UNCHANGED << selectedValues, lastToggle >>

\* the body shared by the Enter branch (lines 187-206) and Item onClick (240-256)
\* (a Selection is followed up to MaxSelected members: a select beyond is not taken)
SelectOption(option) ==
    IF multiple
    THEN /\ FindIndex(selectedValues, option) >= 0 \/ Len(selectedValues) < MaxSelected
         /\ selectedValues' = Toggle(selectedValues, option)
         /\ calls' = << CallOnChangeMany(Toggle(selectedValues, option)) >>
         /\ NoteToggle(option)
         /\ UNCHANGED << isOpen, activeIndex >>
    ELSE /\ calls' = << CallOnChangeOne(option) >>
         /\ ClosePanel
         /\ UNCHANGED << selectedValues, lastToggle >>

-----------------------------------------------------------------------------
(* Events on the input.  A disabled input receives no events.              *)

\* handleInputClick
InputClick ==
    /\ mounted /\ ~disabled
    /\ isOpen' = TRUE
    /\ activeIndex' = 0
    /\ Note("inputClick", << >>)
    /\ NoEffect
    /\ UNCHANGED << mounted, props, selectedValues, inputValue, burst, recomputes >>
    /\ lastToggle' = NoToggle

\* an onChange that does not call setIsOpen(true)
InputChangeNoOpen(value) ==
    /\ mounted /\ ~disabled
    /\ value # inputValue
    /\ inputValue' = value
    /\ isOpen' = isOpen
    /\ activeIndex' = 0
    /\ last' = [ev |-> "inputChange", index |-> null, text |-> value]
    /\ calls' = << CallOnInputChange(value) >>
    /\ RunEffect(options, value, filterOptions, loading)
    /\ NoteQueryChange
    /\ lastToggle' = NoToggle
    /\ UNCHANGED << mounted, props, selectedValues >>

\* onChange of the input
InputChange(value) ==
    /\ mounted /\ ~disabled
    /\ value # inputValue
    /\ inputValue' = value
    /\ isOpen' = TRUE
    /\ activeIndex' = 0
    /\ last' = [ev |-> "inputChange", index |-> null, text |-> value]
    /\ calls' = << CallOnInputChange(value) >>
    /\ RunEffect(options, value, filterOptions, loading)
    /\ NoteQueryChange
    /\ lastToggle' = NoToggle
    /\ UNCHANGED << mounted, props, selectedValues >>

\* an Enter that takes the first option of the view, whatever the active index
KeyEnterFirstOption ==
    /\ mounted /\ ~disabled
    /\ last' = Event("enter")
    /\ IF isOpen /\ activeIndex # null /\ Truthy(At(filteredOptions, 0))
       THEN SelectOption(At(filteredOptions, 0))
       ELSE /\ calls' = << >>
            /\ lastToggle' = NoToggle
            /\ UNCHANGED << isOpen, activeIndex, selectedValues >>
    /\ NoEffect
    /\ UNCHANGED << mounted, props, inputValue, burst, recomputes >>

\* onKeyDown of the input, key Enter
KeyEnter ==
    /\ mounted /\ ~disabled
    /\ last' = Event("enter")
    /\ IF isOpen /\ activeIndex # null /\ Truthy(At(filteredOptions, activeIndex))
       THEN SelectOption(At(filteredOptions, activeIndex))
       ELSE /\ calls' = << >>
            /\ lastToggle' = NoToggle
            /\ UNCHANGED << isOpen, activeIndex, selectedValues >>
    /\ NoEffect
    /\ UNCHANGED << mounted, props, inputValue, burst, recomputes >>

\* useListNavigation with loop: true, allowEscape: true, virtual: true: the index an
\* arrow key navigates to from cur (-1: none) in a list of n items; down is
\* ArrowDown.  Past either end the cursor escapes the list (-1) before it wraps.
ListNavigate(cur, n, down) ==
    LET minIndex == 0
        maxIndex == n - 1
        next == IF down
                THEN (IF cur >= maxIndex
                      THEN (IF cur # n THEN -1 ELSE minIndex)
                      ELSE cur + 1)
                ELSE (IF cur <= minIndex
                      THEN (IF cur # -1 THEN n ELSE maxIndex)
                      ELSE cur - 1)
    IN  IF next < 0 \/ next >= n THEN null ELSE next

\* onKeyDown of the input, keys ArrowDown / ArrowUp (useListNavigation): a closed
\* panel opens on the first or last item, an open one navigates
KeyArrow(down) ==
    /\ mounted /\ ~disabled
    /\ isOpen' = TRUE
    /\ activeIndex' =
          IF isOpen
          THEN ListNavigate(activeIndex, Len(filteredOptions), down)
          ELSE IF filteredOptions = << >> THEN null
               ELSE IF down THEN 0 ELSE Len(filteredOptions) - 1
    /\ Note(IF down THEN "arrowDown" ELSE "arrowUp", << >>)
    /\ NoEffect
    /\ UNCHANGED << mounted, props, selectedValues, inputValue, burst, recomputes >>
    /\ lastToggle' = NoToggle

-----------------------------------------------------------------------------
(* Events outside the input.                                               *)

\* useDismiss: Escape while the panel is open
KeyEscape ==
    /\ mounted /\ isOpen
    /\ ClosePanel
    /\ Note("escape", << >>)
    /\ NoEffect
    /\ UNCHANGED << mounted, props, selectedValues, inputValue, burst, recomputes >>
    /\ lastToggle' = NoToggle

\* useDismiss: pointer press outside the input and the panel while it is open
OutsidePress ==
    /\ mounted /\ isOpen
    /\ ClosePanel
    /\ Note("outsidePress", << >>)
    /\ NoEffect
    /\ UNCHANGED << mounted, props, selectedValues, inputValue, burst, recomputes >>
    /\ lastToggle' = NoToggle

\* onClick of the Item rendered for filteredOptions[index]
OptionClick(index) ==
    /\ mounted /\ isOpen
    /\ index >= 0 /\ index < Len(filteredOptions)
    /\ last' = [ev |-> "optionClick", index |-> index, text |-> << >>]
    /\ SelectOption(At(filteredOptions, index))
    /\ NoEffect
    /\ UNCHANGED << mounted, props, inputValue, burst, recomputes >>

\* a timer callback that recomputes the view but leaves the flag set
TimerFireKeepsFlag(c) ==
    /\ c \in timers
    /\ filteredOptions' = FilterResult(c.options, c.inputValue, c.filterOptions)
    /\ loadingState' = loadingState
    /\ timers' = timers \ { c }
    /\ Note("timer", << >>)
    /\ NoteRecompute(c)
    /\ UNCHANGED << mounted, props, isOpen, activeIndex, selectedValues, inputValue,
                    handler >>
    /\ lastToggle' = NoToggle

\* the setTimeout callback of lines 113-117, with the values it closed over
TimerFire(c) ==
    /\ c \in timers
    /\ filteredOptions' = FilterResult(c.options, c.inputValue, c.filterOptions)
    /\ loadingState' = FALSE
    /\ timers' = timers \ { c }
    /\ Note("timer", << >>)
    /\ NoteRecompute(c)
    /\ UNCHANGED << mounted, props, isOpen, activeIndex, selectedValues, inputValue,
                    handler >>
    /\ lastToggle' = NoToggle

-----------------------------------------------------------------------------
(* The host re-renders with a changed prop, or unmounts the component.     *)

SetOptions(opts) ==
    /\ mounted
    /\ opts # options
    /\ filterOptions = "includes" => AllStrings(opts)
    /\ options' = opts
    /\ RunEffect(opts, inputValue, filterOptions, loading)
    /\ Note("setOptions", << >>)
    /\ NoteEffect
    /\ UNCHANGED << mounted, filterOptions, loading, multiple, disabled, isOpen,
                    activeIndex, selectedValues, inputValue >>
    /\ lastToggle' = NoToggle

SetFilterOptions(f) ==
    /\ mounted
    /\ f # filterOptions
    /\ f = "includes" => AllStrings(options)
    /\ filterOptions' = f
    /\ RunEffect(options, inputValue, f, loading)
    /\ Note("setFilterOptions", << >>)
    /\ NoteEffect
    /\ UNCHANGED << mounted, options, loading, multiple, disabled, isOpen,
                    activeIndex, selectedValues, inputValue >>
    /\ lastToggle' = NoToggle

SetLoading(l) ==
    /\ mounted
    /\ l # loading
    /\ loading' = l
    /\ RunEffect(options, inputValue, filterOptions, l)
    /\ Note("setLoading", << >>)
    /\ EndBurst
    /\ UNCHANGED << mounted, options, filterOptions, multiple, disabled, isOpen,
                    activeIndex, selectedValues, inputValue >>
    /\ lastToggle' = NoToggle

SetDisabled(d) ==
    /\ mounted
    /\ d # disabled
    /\ disabled' = d
    /\ Note("setDisabled", << >>)
    /\ NoEffect
    /\ UNCHANGED << mounted, options, filterOptions, loading, multiple, isOpen,
                    activeIndex, selectedValues, inputValue, burst, recomputes >>
    /\ lastToggle' = NoToggle

\* an unmount whose cleanup clears no timer
UnmountNoCleanup ==
    /\ mounted
    /\ mounted' = FALSE
    /\ timers' = timers
    /\ handler' = {}
    /\ Note("unmount", << >>)
    /\ EndBurst
    /\ UNCHANGED << props, isOpen, activeIndex, selectedValues, inputValue,
                    filteredOptions, loadingState >>
    /\ lastToggle' = NoToggle

\* the cleanup of the effect (lines 119-121) on unmount
Unmount ==
    /\ mounted
    /\ mounted' = FALSE
    /\ timers' = ClearTimeout(timers, handler)
    /\ handler' = {}
    /\ Note("unmount", << >>)
    /\ EndBurst
    /\ UNCHANGED << props, isOpen, activeIndex, selectedValues, inputValue,
                    filteredOptions, loadingState >>
    /\ lastToggle' = NoToggle

-----------------------------------------------------------------------------

Next ==
    \/ InputClick
    \/ \E value \in Queries : InputChange(value)
    \/ KeyEnter
    \/ \E down \in BOOLEAN : KeyArrow(down)
    \/ KeyEscape
    \/ OutsidePress
    \/ \E index \in 0..2 : OptionClick(index)
    \/ \E c \in timers : TimerFire(c)
    \/ \E opts \in OptionSets : SetOptions(opts)
    \/ \E f \in { "absent", "includes" } : SetFilterOptions(f)
    \/ \E l \in BOOLEAN : SetLoading(l)
    \/ \E d \in BOOLEAN : SetDisabled(d)
    \/ Unmount

Spec == Init /\ [][Next]_vars

\* every closure a timer can be set with
Closures ==
    { Closure(opts, q, f) : opts \in OptionSets, q \in Queries,
                            f \in { "absent", "includes" } }

\* setTimeout(..., 1000): a timer that stays pending (is not cleared) fires
TimersFire == \A c \in Closures : WF_vars(TimerFire(c))

SpecFair == Init /\ [][Next]_vars /\ TimersFire

-----------------------------------------------------------------------------
(* Properties.                                                             *)

InBounds(i, arr) == i >= 0 /\ i < Len(arr)

CurrentClosure == Closure(options, inputValue, filterOptions)

\* C1: in every reachable state of the mounted component the Active Index is
\* none or an index of the Filtered View (0 <= activeIndex < length), also when
\* the Filtered View is empty or has shrunk.
C1_ActiveIndexInBounds ==
    mounted => (activeIndex = null \/ InBounds(activeIndex, filteredOptions))

\* C2: with Loading true, the Query changes of a burst leave exactly one timer
\* pending, that of the last Query, and no recompute happens before it; once
\* it has fired there has been exactly one recompute since the last change,
\* and it used the last Query.
C2_OneRecomputePerBurst ==
    (mounted /\ loading) =>
        /\ Cardinality(timers) <= 1
        /\ timers # {} =>
              /\ recomputes.n = 0
              /\ \A c \in timers : c.inputValue = inputValue
        /\ timers = {} =>
              /\ recomputes.n = 1
              /\ recomputes.inputValue = inputValue

\* a burst of at least two Query changes has been answered by its one recompute
C2_Witness ==
    /\ mounted /\ loading /\ burst = MaxBurst
    /\ last.ev = "timer" /\ timers = {}
    /\ recomputes.n = 1 /\ recomputes.inputValue = inputValue
    /\ inputValue = <<"a","p">> /\ filteredOptions = << apple >>

\* C3: last write wins.  No pending timer belongs to an earlier Query, option
\* set or predicate than the current ones, and what a timer firing writes is
\* the Filtered View of the Query, option set and predicate current when it
\* fires, with the loading-in-progress flag cleared.
C3_LastWriteWins ==
    /\ \A c \in timers : c = CurrentClosure
    /\ last.ev = "timer" =>
          /\ recomputes.options = options
          /\ recomputes.inputValue = inputValue
          /\ recomputes.filterOptions = filterOptions
          /\ filteredOptions = FilterResult(options, inputValue, filterOptions)
          /\ loadingState = FALSE

\* a timer set for the second of two Query changes has fired and written its view
C3_Witness ==
    /\ last.ev = "timer" /\ burst >= 2
    /\ inputValue = << >> /\ filterOptions = "includes"
    /\ filteredOptions = << empty, apple, banana >>
    /\ loadingState = FALSE

\* C4: while the panel is open and the Filtered View has N > 0 items, ArrowDown
\* moves the Active Index from N-1 to 0 and otherwise by +1, ArrowUp moves it
\* from 0 or none to N-1 and otherwise by -1; with an empty Filtered View the
\* Active Index stays none under arrow presses.
C4_ArrowsWrapAround ==
    [][ LET n == Len(filteredOptions)
        IN  (isOpen /\ last'.ev \in { "arrowDown", "arrowUp" }) =>
              /\ (n > 0 /\ InBounds(activeIndex, filteredOptions) /\ last'.ev = "arrowDown") =>
                    activeIndex' = (IF activeIndex = n - 1 THEN 0 ELSE activeIndex + 1)
              /\ (n > 0 /\ InBounds(activeIndex, filteredOptions) /\ last'.ev = "arrowUp") =>
                    activeIndex' = (IF activeIndex = 0 THEN n - 1 ELSE activeIndex - 1)
              /\ (n > 0 /\ activeIndex = null /\ last'.ev = "arrowUp") =>
                    activeIndex' = n - 1
              /\ (n = 0 /\ activeIndex = null) => activeIndex' = null
      ]_vars

\* C5: in multiple mode, two toggles of the same option in a row (by click or
\* Enter) return the Selection to the sequence it was before the first toggle,
\* element order included, whether or not the option was selected.
C5_ToggleTwiceRestores ==
    lastToggle.count = 2 => selectedValues = lastToggle.first

\* the members of sel whose serialization is that of option
SameSerialized(sel, option) ==
    { i \in 1..Len(sel) : JSONstringify(sel[i]) = JSONstringify(option) }

\* C5 as amended: two toggles of the same option in a row return the Selection
\* to exactly the prior sequence when the option was not selected before the
\* first; when it was selected once, the result is the prior sequence without
\* that member and with the option appended at the end (the same members, the
\* option moved last).
C5_ToggleTwiceAmended ==
    lastToggle.count = 2 =>
        LET first == lastToggle.first
            hits  == SameSerialized(first, lastToggle.opt)
        IN  /\ hits = {} => selectedValues = first
            /\ Cardinality(hits) = 1 =>
                  selectedValues =
                      SelectSeq(first, LAMBDA v : JSONstringify(v) # JSONstringify(lastToggle.opt))
                      \o << lastToggle.opt >>

\* an option selected first of two has been toggled twice and has moved to the end
C5_Witness ==
    /\ multiple /\ lastToggle.count = 2
    /\ lastToggle.opt = apple
    /\ lastToggle.first = << apple, banana >>
    /\ selectedValues = << banana, apple >>

\* C6: in single mode, selecting an option by click or by Enter invokes onChange
\* exactly once, with that option, and closes the panel, also when the option
\* is already the selected value.
C6_SingleSelectCloses ==
    [][ (~multiple /\ isOpen) =>
          /\ (last'.ev = "optionClick") =>
                /\ calls' = << CallOnChangeOne(At(filteredOptions, last'.index)) >>
                /\ isOpen' = FALSE
          /\ (last'.ev = "enter" /\ InBounds(activeIndex, filteredOptions)) =>
                /\ calls' = << CallOnChangeOne(At(filteredOptions, activeIndex)) >>
                /\ isOpen' = FALSE
      ]_vars

\* C7: in multiple mode a toggle removes the first member of the Selection that
\* is structurally equal to the option if there is one and appends the option
\* otherwise, and onChange is invoked once with the resulting sequence, which is
\* the Selection held afterwards.
C7_ToggleByStructuralEquality ==
    lastToggle.count > 0 =>
        LET prev == lastToggle.prev
            hits == { i \in 1..Len(prev) : DeepEqual(prev[i], lastToggle.opt) }
            expected ==
                IF hits = {} THEN Append(prev, lastToggle.opt)
                ELSE RemoveAt(prev, (CHOOSE i \in hits : \A j \in hits : i <= j) - 1)
        IN  /\ selectedValues = expected
            /\ calls = << CallOnChangeMany(expected) >>

\* C8: whenever the Filtered View is replaced (synchronous recompute, timer
\* firing, new option set), an Active Index that is out of bounds for the new
\* view becomes none: after the replacement the Active Index is none or an
\* index of the new view, never one past its end.
C8_ClampOnViewChange ==
    [][ (mounted /\ filteredOptions' # filteredOptions /\ activeIndex' # null) =>
            InBounds(activeIndex', filteredOptions')
      ]_vars

\* C9: from Open, Escape or a press outside the component leads to Closed;
\* after Escape the Active Index is none; neither changes the Selection nor
\* invokes onChange.
C9_DismissCloses ==
    [][ (isOpen /\ last'.ev \in { "escape", "outsidePress" }) =>
            /\ isOpen' = FALSE
            /\ last'.ev = "escape" => activeIndex' = null
            /\ selectedValues' = selectedValues
            /\ calls' = << >>
      ]_vars

\* Escape has closed a panel whose cursor was on an item, with a Selection held
C9_Witness ==
    /\ last.ev = "escape" /\ ~isOpen /\ activeIndex = null
    /\ selectedValues = << banana, apple >> /\ calls = << >>

\* C10: every text input change sets the Query to the new text, invokes
\* onInputChange exactly once with that text, leaves the panel open, sets the
\* Active Index to 0 and leaves the Selection unchanged.
C10_InputChange ==
    [][ (last'.ev = "inputChange") =>
            /\ inputValue' = last'.text
            /\ inputValue' # inputValue
            /\ calls' = << CallOnInputChange(last'.text) >>
            /\ isOpen' = TRUE
            /\ activeIndex' = 0
            /\ selectedValues' = selectedValues
      ]_vars

\* typing into the closed input has opened the panel with the Selection kept
C10_Witness ==
    /\ last.ev = "inputChange" /\ last.text = <<"a","p">>
    /\ inputValue = <<"a","p">> /\ isOpen /\ activeIndex = 0
    /\ calls = << CallOnInputChange(<<"a","p">>) >>
    /\ selectedValues = << banana >>

\* C11: whenever Loading is false the Filtered View is the immediate recompute
\* for the current Query, option set and predicate, and the loading-in-progress
\* flag is false, also after Loading was true with a timer pending.
C11_NotLoadingNoFlag ==
    (mounted /\ ~loading) =>
        /\ filteredOptions = FilterResult(options, inputValue, filterOptions)
        /\ loadingState = FALSE

\* C12: a timer pending when the component is torn down or when Query, option
\* set, predicate or Loading change is cancelled: the only timer ever pending is
\* the one set for the current inputs with Loading true, none is pending after
\* teardown, and after teardown no event writes the Filtered View or the
\* loading-in-progress flag.
C12_PendingTimerCancelled ==
    /\ \A c \in timers : mounted /\ loading /\ c = CurrentClosure
    /\ ~mounted => (timers = {} /\ last.ev = "unmount")

\* the component was torn down with its timer pending: the recompute never ran
C12_Witness ==
    /\ ~mounted /\ timers = {} /\ last.ev = "unmount"
    /\ loadingState = TRUE
    /\ inputValue = <<"a","p">> /\ filterOptions = "includes"
    /\ filteredOptions = Strings

\* C13: while disabled is true no input click, typing, arrow key, Enter or
\* option click changes the Query, the Open Flag, the Active Index or the
\* Selection or invokes onChange / onInputChange, also when disabled became
\* true while the panel was open.
C13_DisabledSuppresses ==
    [][ (disabled /\ last'.ev \in { "inputClick", "inputChange", "arrowDown",
                                    "arrowUp", "enter", "optionClick" }) =>
            /\ UNCHANGED << inputValue, isOpen, activeIndex, selectedValues >>
            /\ calls' = << >>
      ]_vars

\* C14: in multiple mode the Selection never holds two members that are equal
\* under deep structural equality.
C14_NoDeepDuplicates ==
    multiple =>
        \A i, j \in 1..Len(selectedValues) :
            i # j => ~DeepEqual(selectedValues[i], selectedValues[j])

\* C15: in multiple mode a toggle by option click or by Enter leaves the panel
\* open and leaves the Query, the Filtered View and the Active Index unchanged.
C15_ToggleKeepsPanel ==
    [][ (multiple /\ last'.ev \in { "optionClick", "enter" } /\ lastToggle'.count > 0) =>
            /\ isOpen /\ isOpen' = TRUE
            /\ UNCHANGED << inputValue, filteredOptions, activeIndex >>
      ]_vars

\* an option other than the active one was toggled by a click, panel still open
C15_Witness ==
    /\ multiple /\ last.ev = "optionClick" /\ lastToggle.count = 1
    /\ isOpen /\ activeIndex = 0 /\ last.index = 2
    /\ selectedValues = << banana >>

\* C16: a click on the input opens the panel with the Active Index 0 if the
\* Filtered View is non-empty and none if the Filtered View is empty.
C16_InputClickOpens ==
    [][ last'.ev = "inputClick" =>
            /\ isOpen' = TRUE
            /\ activeIndex' = IF filteredOptions' # << >> THEN 0 ELSE null
      ]_vars

\* C17: an Enter press with the panel closed or the Active Index none changes
\* no state and invokes no callback; an Enter press that does act selects
\* exactly the element at the Active Index of the current Filtered View.
C17_EnterActsOnActive ==
    [][ last'.ev = "enter" =>
            LET option == At(filteredOptions, activeIndex)
                acted  == \/ calls' # << >>
                          \/ << mounted, props, isOpen, activeIndex, selectedValues,
                                inputValue, filteredOptions, loadingState, handler,
                                timers >>' #
                             << mounted, props, isOpen, activeIndex, selectedValues,
                                inputValue, filteredOptions, loadingState, handler,
                                timers >>
            IN  /\ ~(isOpen /\ activeIndex # null) => ~acted
                /\ acted =>
                     /\ isOpen /\ activeIndex # null
                     /\ InBounds(activeIndex, filteredOptions)
                     /\ IF multiple
                        THEN /\ selectedValues' = Toggle(selectedValues, option)
                             /\ calls' = << CallOnChangeMany(selectedValues') >>
                             /\ lastToggle'.opt = option
                        ELSE /\ calls' = << CallOnChangeOne(option) >>
                             /\ selectedValues' = selectedValues
      ]_vars

\* Enter toggled the option at the active index 2 of a three-element view
C17_Witness ==
    /\ last.ev = "enter" /\ multiple /\ isOpen /\ activeIndex = 2
    /\ filteredOptions = Strings
    /\ lastToggle.count = 1 /\ lastToggle.opt = banana
    /\ selectedValues = << banana >>

\* a step that re-runs the effect (a change of Query, option set, predicate or
\* Loading) or tears the component down
InputsChange ==
    last'.ev \in { "inputChange", "setOptions", "setFilterOptions", "setLoading",
                   "unmount" }

\* C18: with Loading true every change of Query, option set or predicate sets
\* the loading-in-progress flag; and if from some point on no change and no
\* teardown follows, then (timers being fair) the timer fires, the recompute
\* for the current inputs has run and the flag is false from some point on.
C18_FlagSetThenCleared ==
    /\ [][ (loading /\ last'.ev \in { "inputChange", "setOptions", "setFilterOptions" }) =>
               (loadingState' = TRUE /\ timers' = { CurrentClosure' }) ]_vars
    /\ (<>[][~InputsChange]_vars) =>
           <>[]((mounted /\ loading) =>
                    /\ loadingState = FALSE
                    /\ timers = {}
                    /\ filteredOptions = FilterResult(options, inputValue, filterOptions))

\* the timer of a burst of two Query changes has fired and cleared the flag
C18_Witness ==
    /\ mounted /\ loading /\ last.ev = "timer"
    /\ burst = 2 /\ recomputes.n = 1
    /\ loadingState = FALSE /\ timers = {}
    /\ inputValue = <<"a","p">> /\ filteredOptions = << apple >>

\* C19: in every state of the mounted component with no timer pending, the
\* Filtered View is the predicate applied to the current option set and Query
\* (the option set itself without a predicate), however Loading was toggled.
C19_QuiescentView ==
    (mounted /\ timers = {}) =>
        filteredOptions = FilterResult(options, inputValue, filterOptions)

\* Loading went false with the timer for "ap" pending: the timer was cancelled
\* and the view recomputed at once
C19_Witness ==
    /\ mounted /\ timers = {} /\ last.ev = "setLoading" /\ ~loading
    /\ loadingState = TRUE
    /\ inputValue = <<"a","p">> /\ filterOptions = "includes"
    /\ filteredOptions = << apple >>

\* the members of the Filtered View
InView(option) == \E i \in 1..Len(filteredOptions) : filteredOptions[i] = option

\* C20: every option passed to onChange in single mode and every option appended
\* to the Selection in multiple mode, by click or Enter, is a member of the
\* Filtered View at that moment; an Enter press with the Active Index outside
\* the Filtered View selects nothing and invokes no onChange.
C20_SelectionProvenance ==
    [][ /\ (~multiple /\ calls' # << >> /\ calls'[1].fn = "onChange") =>
               /\ last'.ev \in { "optionClick", "enter" }
               /\ \E i \in 1..Len(filteredOptions) :
                      calls' = << CallOnChangeOne(filteredOptions[i]) >>
        /\ (multiple /\ Len(selectedValues') > Len(selectedValues)) =>
               /\ last'.ev \in { "optionClick", "enter" }
               /\ Len(selectedValues') = Len(selectedValues) + 1
               /\ InView(selectedValues'[Len(selectedValues')])
        /\ (last'.ev = "enter" /\ activeIndex # null
                /\ ~InBounds(activeIndex, filteredOptions)) =>
               /\ calls' = << >>
               /\ UNCHANGED << selectedValues, isOpen, activeIndex >>
      ]_vars

\* Enter was pressed with the active index 2 on a view shrunk to one element
C20_Witness ==
    /\ last.ev = "enter" /\ isOpen /\ activeIndex = 2
    /\ filteredOptions = << apple >>
    /\ calls = << >> /\ lastToggle.count = 0

====
